---- MODULE Spec2Model ----
(***************************************************************************)
(* A model of .github/scripts/gemini-code-review.py: the review pipeline   *)
(* main() runs (credential check, change discovery, per-file read and      *)
(* review call, report assembly, write) and the pure functions it uses.    *)
(*                                                                         *)
(* A Python str is a sequence of one-character strings; a code point       *)
(* outside ASCII is the one-element token "U+XXXX".                         *)
(***************************************************************************)
EXTENDS Integers, Sequences, FiniteSets, TLC

VARIABLES
    pc,             \* position in main(), or in a single function under test
    apiKey,         \* os.getenv("GEMINI_API_KEY"): [set, value]
    dirExists,      \* whether the directory .github/scripts exists
    outFile,        \* .github/scripts/review-output.md: [exists, content]
    git,            \* what `git diff --name-only HEAD~1` does in this cwd
    disk,           \* path -> [kind, content]: the working tree
    changed_files,  \* main's changed_files
    idx,            \* index of the for loop over changed_files (1-based)
    analyses,       \* main's analyses: sequence of [file, analysis, severity]
    requests,       \* the HTTP requests posted so far: sequence of [url, prompt, timeout]
    responses,      \* what each of those requests came back with
    reads,          \* the paths open()ed for reading so far
    gitCalls,       \* how many times the version-control command was run
    exitStatus,     \* the process's exit status; -1 while it runs
    summary         \* generate_overall_summary's return value (function under test)

vars == <<pc, apiKey, dirExists, outFile, git, disk, changed_files, idx, analyses,
          requests, responses, reads, gitCalls, exitStatus, summary>>

(***************************************************************************)
(* Bounds of the model.                                                    *)
(***************************************************************************)
\* lines of diff output drawn when get_changed_files is checked alone
MaxDiffLines == 3
\* lines of diff output drawn for a run of main()
MaxChanged == 2
\* ReviewResults drawn when generate_overall_summary is checked alone
MaxResults == 2
\* lines of one result text drawn when generate_overall_summary is checked alone
MaxTextLines == 4

(***************************************************************************)
(* Python's str and list operations, as the script uses them.              *)
(***************************************************************************)
MinOf(S) == CHOOSE x \in S : \A y \in S : x <= y
MaxOf(S) == CHOOSE x \in S : \A y \in S : y <= x

\* s[:n]
Take(s, n) == SubSeq(s, 1, IF n < Len(s) THEN n ELSE Len(s))

\* the characters str.strip() removes, among those the model draws
Whitespace == {" ", "\t", "\n", "\r", "\f"}

\* s.strip()
strip(s) ==
    LET keep == {i \in 1..Len(s) : s[i] \notin Whitespace}
    IN  IF keep = {} THEN <<>> ELSE SubSeq(s, MinOf(keep), MaxOf(keep))

RECURSIVE SplitAt(_, _, _)
\* the pieces of s from position start on, cut at the positions in cuts
SplitAt(s, start, cuts) ==
    IF cuts = {} THEN <<SubSeq(s, start, Len(s))>>
    ELSE <<SubSeq(s, start, MinOf(cuts) - 1)>>
             \o SplitAt(s, MinOf(cuts) + 1, cuts \ {MinOf(cuts)})

\* s.split(sep) for a one-character sep: '' splits to ['']
split(s, sep) == SplitAt(s, 1, {i \in 1..Len(s) : s[i] = sep})

\* s.endswith(suffix)
endswith(s, suffix) ==
    /\ Len(suffix) <= Len(s)
    /\ SubSeq(s, Len(s) - Len(suffix) + 1, Len(s)) = suffix

\* needle in s
contains(s, needle) ==
    \E i \in 1..(Len(s) - Len(needle) + 1) : SubSeq(s, i, i + Len(needle) - 1) = needle

LowerCase == <<"a", "b", "c", "d", "e", "f", "g", "h", "i", "j", "k", "l", "m", "n", "o", "p", "q", "r", "s", "t", "u", "v", "w", "x", "y", "z">>
UpperCase == <<"A", "B", "C", "D", "E", "F", "G", "H", "I", "J", "K", "L", "M", "N", "O", "P", "Q", "R", "S", "T", "U", "V", "W", "X", "Y", "Z">>

\* s.upper(), on the characters the model draws
upper(s) ==
    [i \in 1..Len(s) |->
        IF \E k \in 1..Len(LowerCase) : LowerCase[k] = s[i]
        THEN UpperCase[CHOOSE k \in 1..Len(LowerCase) : LowerCase[k] = s[i]]
        ELSE s[i]]

Digits == <<"0", "1", "2", "3", "4", "5", "6", "7", "8", "9">>

RECURSIVE str(_)
\* str(n) / f"{n}" for an int n >= 0
str(n) == IF n < 10 THEN <<Digits[n + 1]>> ELSE str(n \div 10) \o <<Digits[(n % 10) + 1]>>

(***************************************************************************)
(* get_changed_files                                                       *)
(***************************************************************************)
\* the tuple of suffixes given to file.endswith
CodeExtensions ==
    << <<".", "t", "s">>, <<".", "t", "s", "x">>, <<".", "j", "s">>, <<".", "j", "s", "x">>, <<".", "p", "y">>,
       <<".", "j", "a", "v", "a">>, <<".", "c", "p", "p">>, <<".", "c">>, <<".", "h">>, <<".", "h", "p", "p">> >>

\* a slip: `ext in file` instead of file.endswith(ext)
IsCodeFile_AnyPosition(file) ==
    \E k \in 1..Len(CodeExtensions) : contains(file, CodeExtensions[k])

\* file.endswith((...)): true when any suffix of the tuple matches
IsCodeFile(file) == \E k \in 1..Len(CodeExtensions) : endswith(file, CodeExtensions[k])

RECURSIVE StrippedLines(_)
\* [f.strip() for f in lines if f.strip()]
StrippedLines(lines) ==
    IF lines = <<>> THEN <<>>
    ELSE (IF strip(Head(lines)) # <<>> THEN <<strip(Head(lines))>> ELSE <<>>)
             \o StrippedLines(Tail(lines))

RECURSIVE CodeFiles(_, _)
\* the loop `for file in files: if file.endswith(...): code_files.append(file)`
CodeFiles(files, code_files) ==
    IF files = <<>> THEN code_files
    ELSE CodeFiles(Tail(files),
                   IF IsCodeFile(Head(files)) THEN Append(code_files, Head(files))
                   ELSE code_files)

\* get_changed_files(), given what subprocess.run did
get_changed_files(g) ==
    IF g.kind = "raise" THEN <<>>
    ELSE IF g.returncode = 0
         THEN CodeFiles(StrippedLines(split(g.stdout, "\n")), <<>>)
         ELSE <<>>

(***************************************************************************)
(* read_file_content                                                       *)
(***************************************************************************)
\* what the working tree holds at a path; a path it does not name is missing
FileState(d, file_path) ==
    IF file_path \in DOMAIN d THEN d[file_path] ELSE [kind |-> "missing", content |-> <<>>]

\* os.path.exists(file_path)
path_exists(d, file_path) == FileState(d, file_path).kind # "missing"

\* read_file_content(file_path): the text, or "" when open() or read() raises
read_file_content(d, file_path) ==
    IF FileState(d, file_path).kind = "text" THEN FileState(d, file_path).content ELSE <<>>

(***************************************************************************)
(* call_gemini_api                                                         *)
(***************************************************************************)
GEMINI_API_URL ==
    <<
    "h", "t", "t", "p", "s", ":", "/", "/", "g", "e", "n", "e", "r", "a", "t", "i",
    "v", "e", "l", "a", "n", "g", "u", "a", "g", "e", ".", "g", "o", "o", "g", "l",
    "e", "a", "p", "i", "s", ".", "c", "o", "m", "/", "v", "1", "b", "e", "t", "a",
    "/", "m", "o", "d", "e", "l", "s", "/", "g", "e", "m", "i", "n", "i", "-", "p",
    "r", "o", ":", "g", "e", "n", "e", "r", "a", "t", "e", "C", "o", "n", "t", "e",
    "n", "t" >>

\* timeout=30 of requests.post
RequestTimeout == 30

\* the request requests.post sends
HttpRequest(prompt, api_key) ==
    [url     |-> GEMINI_API_URL \o <<"?", "k", "e", "y", "=">> \o api_key,
     prompt  |-> prompt,
     timeout |-> RequestTimeout]

NoResponseText == <<
    "N", "o", " ", "r", "e", "s", "p", "o", "n", "s", "e", " ", "g", "e", "n", "e",
    "r", "a", "t", "e", "d", " ", "f", "r", "o", "m", " ", "G", "e", "m", "i", "n",
    "i", " ", "A", "P", "I" >>
ApiErrorPrefix == <<"A", "P", "I", " ", "E", "r", "r", "o", "r", ":", " ">>
CallErrorPrefix == <<"E", "r", "r", "o", "r", " ", "c", "a", "l", "l", "i", "n", "g", " ", "G", "e", "m", "i", "n", "i", " ", "A", "P", "I", ":", " ">>

\* a slip: candidates[-1] instead of candidates[0]
FirstCandidateText_Last(candidates) ==
    IF candidates[Len(candidates)].hasText THEN candidates[Len(candidates)].text
    ELSE CallErrorPrefix \o <<"'", "c", "o", "n", "t", "e", "n", "t", "'">>

\* result['candidates'][0]['content']['parts'][0]['text']; a candidate without
\* content raises KeyError('content'), whose str() is quoted
FirstCandidateText(candidates) ==
    IF candidates[1].hasText THEN candidates[1].text
    ELSE CallErrorPrefix \o <<"'", "c", "o", "n", "t", "e", "n", "t", "'">>

\* a slip: the body left out of the error text
ApiErrorText_NoBody(resp) == ApiErrorPrefix \o str(resp.status)

\* f"API Error: {response.status_code} - {response.text}"
ApiErrorText(resp) == ApiErrorPrefix \o str(resp.status) \o <<" ", "-", " ">> \o resp.text

\* call_gemini_api's return value, given what requests.post did:
\* resp = [kind, status, text, json: [ok, hasCandidates, candidates], err]
call_gemini_api(prompt, api_key, resp) ==
    IF resp.kind = "raise" THEN CallErrorPrefix \o resp.err
    ELSE IF resp.status = 200
         THEN IF ~resp.json.ok THEN CallErrorPrefix \o resp.err
              ELSE IF resp.json.hasCandidates /\ Len(resp.json.candidates) > 0
                   THEN FirstCandidateText(resp.json.candidates)
                   ELSE NoResponseText
         ELSE ApiErrorText(resp)

(***************************************************************************)
(* analyze_file_with_gemini                                                *)
(***************************************************************************)
\* content[:4000]
PromptContentCap == 4000

PromptHead ==
    <<
    "\n", "Y", "o", "u", " ", "a", "r", "e", " ", "a", "n", " ", "e", "x", "p", "e",
    "r", "t", " ", "c", "o", "d", "e", " ", "r", "e", "v", "i", "e", "w", "e", "r",
    ".", " ", "A", "n", "a", "l", "y", "z", "e", " ", "t", "h", "e", " ", "f", "o",
    "l", "l", "o", "w", "i", "n", "g", " ", "c", "o", "d", "e", " ", "f", "i", "l",
    "e", " ", "a", "n", "d", " ", "p", "r", "o", "v", "i", "d", "e", " ", "c", "o",
    "n", "s", "t", "r", "u", "c", "t", "i", "v", "e", " ", "f", "e", "e", "d", "b",
    "a", "c", "k", ".", "\n", "\n", "F", "i", "l", "e", ":", " " >>

PromptTail ==
    <<
    ".", ".", ".", " ", "(", "t", "r", "u", "n", "c", "a", "t", "e", "d", " ", "i",
    "f", " ", "l", "o", "n", "g", "e", "r", ")", "\n", "\n", "P", "l", "e", "a", "s",
    "e", " ", "p", "r", "o", "v", "i", "d", "e", ":", "\n", "1", ".", " ", "*", "*",
    "O", "v", "e", "r", "a", "l", "l", " ", "A", "s", "s", "e", "s", "s", "m", "e",
    "n", "t", "*", "*", ":", " ", "B", "r", "i", "e", "f", " ", "s", "u", "m", "m",
    "a", "r", "y", " ", "o", "f", " ", "c", "o", "d", "e", " ", "q", "u", "a", "l",
    "i", "t", "y", "\n", "2", ".", " ", "*", "*", "S", "t", "r", "e", "n", "g", "t",
    "h", "s", "*", "*", ":", " ", "W", "h", "a", "t", " ", "t", "h", "e", " ", "c",
    "o", "d", "e", " ", "d", "o", "e", "s", " ", "w", "e", "l", "l", "\n", "3", ".",
    " ", "*", "*", "I", "s", "s", "u", "e", "s", "*", "*", ":", " ", "S", "p", "e",
    "c", "i", "f", "i", "c", " ", "p", "r", "o", "b", "l", "e", "m", "s", " ", "o",
    "r", " ", "i", "m", "p", "r", "o", "v", "e", "m", "e", "n", "t", "s", " ", "n",
    "e", "e", "d", "e", "d", "\n", "4", ".", " ", "*", "*", "S", "e", "c", "u", "r",
    "i", "t", "y", " ", "C", "o", "n", "c", "e", "r", "n", "s", "*", "*", ":", " ",
    "A", "n", "y", " ", "s", "e", "c", "u", "r", "i", "t", "y", " ", "v", "u", "l",
    "n", "e", "r", "a", "b", "i", "l", "i", "t", "i", "e", "s", "\n", "5", ".", " ",
    "*", "*", "B", "e", "s", "t", " ", "P", "r", "a", "c", "t", "i", "c", "e", "s",
    "*", "*", ":", " ", "S", "u", "g", "g", "e", "s", "t", "i", "o", "n", "s", " ",
    "f", "o", "r", " ", "f", "o", "l", "l", "o", "w", "i", "n", "g", " ", "c", "o",
    "d", "i", "n", "g", " ", "b", "e", "s", "t", " ", "p", "r", "a", "c", "t", "i",
    "c", "e", "s", "\n", "6", ".", " ", "*", "*", "S", "e", "v", "e", "r", "i", "t",
    "y", "*", "*", ":", " ", "R", "a", "t", "e", " ", "a", "s", " ", "L", "O", "W",
    "/", "M", "E", "D", "I", "U", "M", "/", "H", "I", "G", "H", "/", "C", "R", "I",
    "T", "I", "C", "A", "L", "\n", "\n", "F", "o", "r", "m", "a", "t", " ", "y", "o",
    "u", "r", " ", "r", "e", "s", "p", "o", "n", "s", "e", " ", "i", "n", " ", "c",
    "l", "e", "a", "r", " ", "s", "e", "c", "t", "i", "o", "n", "s", " ", "w", "i",
    "t", "h", " ", "e", "m", "o", "j", "i", "s", " ", "f", "o", "r", " ", "r", "e",
    "a", "d", "a", "b", "i", "l", "i", "t", "y", ".", "\n", "B", "e", " ", "s", "p",
    "e", "c", "i", "f", "i", "c", " ", "a", "n", "d", " ", "a", "c", "t", "i", "o",
    "n", "a", "b", "l", "e", " ", "i", "n", " ", "y", "o", "u", "r", " ", "f", "e",
    "e", "d", "b", "a", "c", "k", ".", "\n" >>

\* the f-string prompt
Prompt(file_path, content) ==
    PromptHead \o file_path \o <<"\n", "C", "o", "n", "t", "e", "n", "t", ":", "\n">> \o Take(content, PromptContentCap) \o PromptTail

DefaultSeverity == <<"M", "E", "D", "I", "U", "M">>

\* analyze_file_with_gemini's return value, given what the review call did
analyze_file_with_gemini(file_path, content, api_key, resp) ==
    [file     |-> file_path,
     analysis |-> call_gemini_api(Prompt(file_path, content), api_key, resp),
     severity |-> DefaultSeverity]

(***************************************************************************)
(* generate_overall_summary                                                *)
(***************************************************************************)
IconHigh == <<"U+1F534">>
IconMedium == <<"U+1F7E1">>
IconLow == <<"U+1F7E2">>

\* a slip: the .upper() forgotten, so the match is case-sensitive
IsHighPriority_CaseSensitive(analysis_text) ==
    \/ contains(analysis_text, <<"H", "I", "G", "H">>)
    \/ contains(analysis_text, <<"C", "R", "I", "T", "I", "C", "A", "L">>)

\* "HIGH" in text.upper() or "CRITICAL" in text.upper()
IsHighPriority(analysis_text) ==
    \/ contains(upper(analysis_text), <<"H", "I", "G", "H">>)
    \/ contains(upper(analysis_text), <<"C", "R", "I", "T", "I", "C", "A", "L">>)

\* sum(1 for a in analyses if ...)
HighPriorityCount(results) ==
    Cardinality({k \in 1..Len(results) : IsHighPriority(results[k].analysis)})

\* the if / elif / else that picks severity_icon
SeverityIcon(analysis_text) ==
    IF IsHighPriority(analysis_text) THEN IconHigh
    ELSE IF contains(upper(analysis_text), <<"M", "E", "D", "I", "U", "M">>) THEN IconMedium
    ELSE IconLow

\* analysis_text.split('\n')[:3]
SummaryLineCap == 3

RECURSIVE Bullets(_)
\* for line in lines: if line.strip(): summary += f"- {line.strip()}\n"
Bullets(lines) ==
    IF lines = <<>> THEN <<>>
    ELSE (IF strip(Head(lines)) # <<>>
          THEN <<"-", " ">> \o strip(Head(lines)) \o <<"\n">>
          ELSE <<>>)
             \o Bullets(Tail(lines))

\* a slip: the [:3] applied after the blank lines are dropped
KeyLines_AfterFilter(analysis_text) ==
    LET lines == split(analysis_text, "\n")
    IN  Take(SelectSeq(lines, LAMBDA l : strip(l) # <<>>), SummaryLineCap)

\* the lines the summary draws its bullets from
KeyLines(analysis_text) == Take(split(analysis_text, "\n"), SummaryLineCap)

\* what one iteration of the loop adds to summary
SummaryEntry(a) ==
    <<"*", "*">> \o SeverityIcon(a.analysis) \o <<" ">> \o a.file \o <<"*", "*", "\n">>
        \o Bullets(KeyLines(a.analysis))
        \o <<"\n">>

RECURSIVE SummaryEntries(_)
SummaryEntries(results) ==
    IF results = <<>> THEN <<>>
    ELSE SummaryEntry(Head(results)) \o SummaryEntries(Tail(results))

SummaryTitle == <<
    "#", "#", " ", "U+1F4CB", " ", "C", "o", "d", "e", " ", "R", "e", "v", "i", "e", "w",
    " ", "S", "u", "m", "m", "a", "r", "y", "\n", "\n", "*", "*", "F", "i", "l", "e",
    "s", " ", "A", "n", "a", "l", "y", "z", "e", "d", "*", "*", ":", " " >>
SummaryHighLabel == <<"*", "*", "H", "i", "g", "h", " ", "P", "r", "i", "o", "r", "i", "t", "y", " ", "I", "s", "s", "u", "e", "s", "*", "*", ":", " ">>
SummaryOverview == <<"\n", "\n", "#", "#", "#", " ", "U+1F50D", " ", "A", "n", "a", "l", "y", "s", "i", "s", " ", "O", "v", "e", "r", "v", "i", "e", "w", "\n", "\n">>

\* generate_overall_summary(analyses)
generate_overall_summary(results) ==
    SummaryTitle \o str(Len(results)) \o <<"\n">>
        \o SummaryHighLabel \o str(HighPriorityCount(results))
        \o SummaryOverview
        \o SummaryEntries(results)

(***************************************************************************)
(* main: the report                                                        *)
(***************************************************************************)
OutputPath == <<
    ".", "g", "i", "t", "h", "u", "b", "/", "s", "c", "r", "i", "p", "t", "s", "/",
    "r", "e", "v", "i", "e", "w", "-", "o", "u", "t", "p", "u", "t", ".", "m", "d" >>

NoFilesDocument ==
    <<
    "#", "#", " ", "U+1F916", " ", "A", "I", " ", "C", "o", "d", "e", " ", "R", "e", "v",
    "i", "e", "w", " ", "R", "e", "s", "u", "l", "t", "s", "\n", "\n", "U+2139", "U+FE0F", " ",
    "*", "*", "N", "o", " ", "c", "o", "d", "e", " ", "f", "i", "l", "e", "s", " ",
    "w", "e", "r", "e", " ", "c", "h", "a", "n", "g", "e", "d", " ", "i", "n", " ",
    "t", "h", "i", "s", " ", "p", "u", "l", "l", " ", "r", "e", "q", "u", "e", "s",
    "t", ".", "*", "*", "\n", "\n", "T", "h", "e", " ", "A", "I", " ", "c", "o", "d",
    "e", " ", "r", "e", "v", "i", "e", "w", " ", "f", "o", "u", "n", "d", " ", "n",
    "o", " ", "f", "i", "l", "e", "s", " ", "t", "o", " ", "a", "n", "a", "l", "y",
    "z", "e", "." >>

ReportTitle == <<
    "#", "#", " ", "U+1F916", " ", "A", "I", " ", "C", "o", "d", "e", " ", "R", "e", "v",
    "i", "e", "w", " ", "R", "e", "s", "u", "l", "t", "s", " ", "(", "G", "e", "m",
    "i", "n", "i", ")", "\n", "\n" >>
ReportFooter ==
    <<
    "*", "T", "h", "i", "s", " ", "r", "e", "v", "i", "e", "w", " ", "w", "a", "s",
    " ", "g", "e", "n", "e", "r", "a", "t", "e", "d", " ", "b", "y", " ", "G", "o",
    "o", "g", "l", "e", " ", "G", "e", "m", "i", "n", "i", " ", "A", "I", " ", "u",
    "s", "i", "n", "g", " ", "a", "d", "v", "a", "n", "c", "e", "d", " ", "c", "o",
    "d", "e", " ", "a", "n", "a", "l", "y", "s", "i", "s", ".", "*" >>
SectionHeading == <<"#", "#", " ", "U+1F4C4", " ">>
SectionRule == <<"\n", "\n", "-", "-", "-", "\n", "\n">>

\* what one iteration of `for analysis in analyses` adds to review_output
ReportSection(a) == SectionHeading \o a.file \o <<"\n", "\n">> \o a.analysis \o SectionRule

RECURSIVE ReportSections(_)
ReportSections(results) ==
    IF results = <<>> THEN <<>>
    ELSE ReportSection(Head(results)) \o ReportSections(Tail(results))

\* review_output as main builds it from analyses
ReviewOutput(results) ==
    ReportTitle
        \o <<"*", "*", "A", "n", "a", "l", "y", "z", "e", "d", " ">> \o str(Len(results)) \o <<" ", "f", "i", "l", "e", "s", "*", "*", "\n", "\n">>
        \o (IF results # <<>>
            THEN generate_overall_summary(results) \o <<"-", "-", "-", "\n", "\n">> \o ReportSections(results)
            ELSE <<>>)
        \o ReportFooter

(***************************************************************************)
(* main: the steps                                                         *)
(***************************************************************************)
\* `if not api_key`: None and "" are both falsy
KeyMissing(key) == ~key.set \/ key.value = <<>>

\* a slip: analyses.insert(0, analysis)
AppendAnalysis_AtFront(results, a) == <<a>> \o results

\* analyses.append(analysis)
AppendAnalysis(results, a) == Append(results, a)

\* the loop's next position: the following file, or the report after the last one
AfterFile(i, files) == IF i + 1 > Len(files) THEN "report" ELSE "loop"

\* api_key = os.getenv(...); if not api_key: sys.exit(1)
MainStart ==
    /\ pc = "start"
    /\ IF KeyMissing(apiKey)
       THEN pc' = "done" /\ exitStatus' = 1
       ELSE pc' = "discover" /\ exitStatus' = exitStatus
    /\ UNCHANGED <<apiKey, dirExists, outFile, git, disk, changed_files, idx, analyses,
                   requests, responses, reads, gitCalls, summary>>

\* changed_files = get_changed_files(); if not changed_files: ...
Discover ==
    /\ pc = "discover"
    /\ changed_files' = get_changed_files(git)
    /\ gitCalls' = gitCalls + 1
    /\ pc' = IF changed_files' = <<>> THEN "nofiles" ELSE "loop"
    /\ UNCHANGED <<apiKey, dirExists, outFile, git, disk, idx, analyses,
                   requests, responses, reads, exitStatus, summary>>

\* the `if not changed_files` branch: open(path, "w") with no mkdir before it;
\* in a missing directory open raises FileNotFoundError, which nothing catches,
\* and the interpreter exits with status 1
WriteNoFiles ==
    /\ pc = "nofiles"
    /\ IF dirExists
       THEN outFile' = [exists |-> TRUE, content |-> NoFilesDocument] /\ exitStatus' = 0
       ELSE outFile' = outFile /\ exitStatus' = 1
    /\ pc' = "done"
    /\ UNCHANGED <<apiKey, dirExists, git, disk, changed_files, idx, analyses,
                   requests, responses, reads, gitCalls, summary>>

\* loop body, os.path.exists(file_path) false
SkipMissing ==
    /\ pc = "loop"
    /\ ~path_exists(disk, changed_files[idx])
    /\ idx' = idx + 1
    /\ pc' = AfterFile(idx, changed_files)
    /\ UNCHANGED <<apiKey, dirExists, outFile, git, disk, changed_files, analyses,
                   requests, responses, reads, gitCalls, exitStatus, summary>>

\* loop body, the file exists and read_file_content returned ""
SkipNoContent ==
    /\ pc = "loop"
    /\ path_exists(disk, changed_files[idx])
    /\ read_file_content(disk, changed_files[idx]) = <<>>
    /\ reads' = Append(reads, changed_files[idx])
    /\ idx' = idx + 1
    /\ pc' = AfterFile(idx, changed_files)
    /\ UNCHANGED <<apiKey, dirExists, outFile, git, disk, changed_files, analyses,
                   requests, responses, gitCalls, exitStatus, summary>>

\* loop body, the file was read: one review call, one result appended
AnalyzeFile(resp) ==
    /\ pc = "loop"
    /\ path_exists(disk, changed_files[idx])
    /\ read_file_content(disk, changed_files[idx]) # <<>>
    /\ LET file_path == changed_files[idx]
           content   == read_file_content(disk, file_path)
       IN  /\ reads' = Append(reads, file_path)
           /\ requests' = Append(requests, HttpRequest(Prompt(file_path, content), apiKey.value))
           /\ responses' = Append(responses, resp)
           /\ analyses' = AppendAnalysis(analyses,
                              analyze_file_with_gemini(file_path, content, apiKey.value, resp))
    /\ idx' = idx + 1
    /\ pc' = AfterFile(idx, changed_files)
    /\ UNCHANGED <<apiKey, dirExists, outFile, git, disk, changed_files,
                   gitCalls, exitStatus, summary>>

\* after the loop: build review_output, mkdir(parents=True, exist_ok=True), write
WriteReport ==
    /\ pc = "report"
    /\ dirExists' = TRUE
    /\ outFile' = [exists |-> TRUE, content |-> ReviewOutput(analyses)]
    /\ exitStatus' = 0
    /\ pc' = "done"
    /\ UNCHANGED <<apiKey, git, disk, changed_files, idx, analyses,
                   requests, responses, reads, gitCalls, summary>>

\* generate_overall_summary applied to a list of results, on its own
Summarize ==
    /\ pc = "summarize"
    /\ summary' = generate_overall_summary(analyses)
    /\ pc' = "summarized"
    /\ UNCHANGED <<apiKey, dirExists, outFile, git, disk, changed_files, idx, analyses,
                   requests, responses, reads, gitCalls, exitStatus>>

(***************************************************************************)
(* The environment a run starts in.                                        *)
(***************************************************************************)
\* sequences over S of length at most n
SeqsUpTo(S, n) == UNION {[1..k -> S] : k \in 0..n}

\* the sequences among them that name nothing twice
DistinctSeqsUpTo(S, n) ==
    {s \in SeqsUpTo(S, n) : \A i, j \in 1..Len(s) : i # j => s[i] # s[j]}

RECURSIVE DiffOutput(_)
\* stdout of `git diff --name-only`: each changed path once, on a line of its own
DiffOutput(lines) ==
    IF lines = <<>> THEN <<>> ELSE Head(lines) \o <<"\n">> \o DiffOutput(Tail(lines))

\* what subprocess.run can do: exit 0 with the listing, exit non-zero, or raise
GitOutcomes(lines, n) ==
    {[kind |-> "ok", returncode |-> 0, stdout |-> DiffOutput(ls), stderr |-> <<>>] :
        ls \in DistinctSeqsUpTo(lines, n)}
    \cup {[kind |-> "ok", returncode |-> 128, stdout |-> <<>>,
           stderr |-> <<"f", "a", "t", "a", "l", ":", " ", "n", "o", "t", " ", "a", " ", "g", "i", "t", " ", "r", "e", "p", "o", "s", "i", "t", "o", "r", "y">>],
          [kind |-> "raise", returncode |-> 0, stdout |-> <<>>, stderr |-> <<>>]}

\* GEMINI_API_KEY unset, set to "", set
Keys ==
    {[set |-> FALSE, value |-> <<>>], [set |-> TRUE, value |-> <<>>],
     [set |-> TRUE, value |-> <<"k">>]}

NoOutFile == [exists |-> FALSE, content |-> <<>>]

\* the output directory and file before the run: a file needs its directory
OutputStates ==
    {<<FALSE, NoOutFile>>, <<TRUE, NoOutFile>>,
     <<TRUE, [exists |-> TRUE, content |-> <<"o", "l", "d">>]>>}

MainPaths == {<<"a", ".", "p", "y">>, <<"b", ".", "c">>}
\* the paths a run's diff lists: the two above, a file whose name is a.py with a
\* space after it, and a file of another extension
MainLines == MainPaths \cup {<<"a", ".", "p", "y", " ">>, <<"x", ".", "m", "d">>}

\* a path is missing, unreadable (open or decode raises), empty, or holds text
FileStates ==
    {[kind |-> "missing", content |-> <<>>], [kind |-> "unreadable", content |-> <<>>],
     [kind |-> "text", content |-> <<>>], [kind |-> "text", content |-> <<"x", "=", "1">>]}

Candidate(t) == [hasText |-> TRUE, text |-> t]
NoContentCandidate == [hasText |-> FALSE, text |-> <<>>]

HttpResponse(status, body, json) ==
    [kind |-> "http", status |-> status, text |-> body, json |-> json, err |-> <<"b", "a", "d", " ", "j", "s", "o", "n">>]
Json(cands) == [ok |-> TRUE, hasCandidates |-> TRUE, candidates |-> cands]
NoCandidatesJson == [ok |-> TRUE, hasCandidates |-> FALSE, candidates |-> <<>>]
BadJson == [ok |-> FALSE, hasCandidates |-> FALSE, candidates |-> <<>>]

\* what requests.post and response.json() can come back with
Responses ==
    {[kind |-> "raise", status |-> 0, text |-> <<>>, json |-> BadJson, err |-> <<"t", "i", "m", "e", "d", " ", "o", "u", "t">>],
     HttpResponse(500, <<"o", "o", "p", "s">>, BadJson),
     HttpResponse(200, <<"<", "h", "t", "m", "l", ">">>, BadJson),
     HttpResponse(200, <<>>, NoCandidatesJson),
     HttpResponse(200, <<>>, Json(<<>>)),
     HttpResponse(200, <<>>, Json(<<Candidate(<<"X">>)>>)),
     HttpResponse(200, <<>>, Json(<<Candidate(<<"H", "i", "g", "h", "\n", "r", "i", "s", "k">>), Candidate(<<"X">>)>>)),
     HttpResponse(200, <<>>, Json(<<NoContentCandidate>>))}

Init ==
    /\ pc = "start"
    /\ apiKey \in Keys
    /\ \E o \in OutputStates : dirExists = o[1] /\ outFile = o[2]
    /\ git \in GitOutcomes(MainLines, MaxChanged)
    /\ disk \in [MainPaths -> FileStates]
    /\ changed_files = <<>>
    /\ idx = 1
    /\ analyses = <<>>
    /\ requests = <<>>
    /\ responses = <<>>
    /\ reads = <<>>
    /\ gitCalls = 0
    /\ exitStatus = -1
    /\ summary = <<>>

Next ==
    \/ MainStart
    \/ Discover
    \/ WriteNoFiles
    \/ SkipMissing
    \/ SkipNoContent
    \/ \E resp \in Responses : AnalyzeFile(resp)
    \/ WriteReport

Spec == Init /\ [][Next]_vars

(***************************************************************************)
(* get_changed_files on its own: the diff output is drawn from paths with  *)
(* every allow-listed extension, other extensions, and names that begin or *)
(* end with white space.                                                   *)
(***************************************************************************)
RawLines ==
    {<<"a", ".", "t", "s">>, <<"a", ".", "t", "s", "x">>, <<"a", ".", "j", "s">>, <<"a", ".", "j", "s", "x">>, <<"a", ".", "p", "y">>, <<"a", ".", "j", "a", "v", "a">>, <<"a", ".", "c", "p", "p">>,
     <<"a", ".", "c">>, <<"a", ".", "h">>, <<"a", ".", "h", "p", "p">>,
     <<"a", ".", "m", "d">>, <<"a", ".", "p", "y", "c">>, <<"a", ".", "p", "y", ".", "b", "a", "k">>, <<"a", "p", "y">>, <<" ", "a", ".", "p", "y">>, <<"a", ".", "p", "y", " ", "\t">>, <<" ", " ">>}

MissingFile == [kind |-> "missing", content |-> <<>>]

InitDiscovery ==
    /\ pc = "discover"
    /\ apiKey = [set |-> TRUE, value |-> <<"k">>]
    /\ dirExists = TRUE
    /\ outFile = NoOutFile
    /\ git \in GitOutcomes(RawLines, MaxDiffLines)
    /\ disk = [f \in MainPaths |-> MissingFile]
    /\ changed_files = <<>>
    /\ idx = 1
    /\ analyses = <<>>
    /\ requests = <<>>
    /\ responses = <<>>
    /\ reads = <<>>
    /\ gitCalls = 0
    /\ exitStatus = -1
    /\ summary = <<>>

NextDiscovery == Discover

SpecDiscovery == InitDiscovery /\ [][NextDiscovery]_vars

\* the paths the diff output gives: its lines, stripped, blanks dropped
IsPath(line) == line # <<>>
GivenPaths ==
    LET lines == split(git.stdout, "\n")
    IN  SelectSeq([i \in 1..Len(lines) |-> strip(lines[i])], IsPath)

AllowedExtensions ==
    {<<".", "t", "s">>, <<".", "t", "s", "x">>, <<".", "j", "s">>, <<".", "j", "s", "x">>, <<".", "p", "y">>, <<".", "j", "a", "v", "a">>, <<".", "c", "p", "p">>, <<".", "c">>,
     <<".", "h">>, <<".", "h", "p", "p">>}

\* path = stem \o e for an allow-listed extension e
HasAllowedExtension(path) ==
    \E e \in AllowedExtensions :
        /\ Len(path) >= Len(e)
        /\ \A j \in 1..Len(e) : path[Len(path) - Len(e) + j] = e[j]

GitSucceeded == git.kind = "ok" /\ git.returncode = 0

\* C9: after a successful version-control command the discovered list is exactly
\* the stripped, non-empty paths of the diff output that end in an allow-listed
\* extension, in their original order and with duplicates kept: nothing with
\* another extension appears and no matching path is dropped.
C9_DiscoveredIsFilteredDiff ==
    (pc # "discover" /\ GitSucceeded)
        => changed_files = SelectSeq(GivenPaths, HasAllowedExtension)

\* a listing that gives a path twice once stripped, a path of another extension between
C9_Witness ==
    /\ pc # "discover"
    /\ GitSucceeded
    /\ GivenPaths = <<<<"a", ".", "p", "y">>, <<"a", ".", "m", "d">>, <<"a", ".", "p", "y">>>>
    /\ changed_files = <<<<"a", ".", "p", "y">>, <<"a", ".", "p", "y">>>>

(***************************************************************************)
(* generate_overall_summary on its own: lists of results whose texts spell *)
(* the severity words in several cases, and single results whose texts are *)
(* drawn line by line, blank lines included.                               *)
(***************************************************************************)
KeywordTexts ==
    {<<"H", "I", "G", "H">>, <<"H", "i", "g", "h">>, <<"a", " ", "c", "r", "i", "t", "i", "c", "a", "l", " ", "b", "u", "g">>, <<"m", "e", "d", "i", "u", "m">>, <<"M", "E", "D", "I", "U", "M", " ", "h", "i", "g", "h">>, <<"l", "o", "w">>,
     <<>>, <<"h", "i", " ", "g", "h">>, <<"M", "e", "d", "i", "u", "m", "\n", "C", "R", "I", "T", "I", "C", "A", "L">>}

TextLines == {<<>>, <<" ">>, <<"a", "b">>, <<" ", "c", " ">>, <<"d">>}

RECURSIVE JoinLines(_)
\* '\n'.join(lines)
JoinLines(lines) ==
    IF lines = <<>> THEN <<>>
    ELSE IF Len(lines) = 1 THEN Head(lines)
    ELSE Head(lines) \o <<"\n">> \o JoinLines(Tail(lines))

Result(file, text, severity) == [file |-> file, analysis |-> text, severity |-> severity]

KeywordResults ==
    {Result(f, x, s) : f \in MainPaths, x \in KeywordTexts, s \in {<<"M", "E", "D", "I", "U", "M">>, <<"H", "I", "G", "H">>}}

LineResults ==
    {Result(<<"a", ".", "p", "y">>, JoinLines(ls), <<"M", "E", "D", "I", "U", "M">>) : ls \in SeqsUpTo(TextLines, MaxTextLines)}

InitSummary ==
    /\ pc = "summarize"
    /\ apiKey = [set |-> TRUE, value |-> <<"k">>]
    /\ dirExists = TRUE
    /\ outFile = NoOutFile
    /\ git = [kind |-> "ok", returncode |-> 0, stdout |-> <<>>, stderr |-> <<>>]
    /\ disk = [f \in MainPaths |-> MissingFile]
    /\ changed_files = <<>>
    /\ idx = 1
    /\ analyses \in SeqsUpTo(KeywordResults, MaxResults) \cup {<<r>> : r \in LineResults}
    /\ requests = <<>>
    /\ responses = <<>>
    /\ reads = <<>>
    /\ gitCalls = 0
    /\ exitStatus = -1
    /\ summary = <<>>

NextSummary == Summarize

SpecSummary == InitSummary /\ [][NextSummary]_vars

(***************************************************************************)
(* Reading a summary or a report back, line by line.                       *)
(***************************************************************************)
Icons == {IconHigh, IconMedium, IconLow}

\* a file's labeled line of the summary: **<icon> <file>**
IsEntryLine(line) ==
    /\ Len(line) >= 6
    /\ SubSeq(line, 1, 2) = <<"*", "*">>
    /\ <<line[3]>> \in Icons
    /\ line[4] = " "
    /\ SubSeq(line, Len(line) - 1, Len(line)) = <<"*", "*">>

EntryLines(lines) == SelectSeq(lines, IsEntryLine)
EntryIcon(line) == <<line[3]>>
EntryFile(line) == SubSeq(line, 5, Len(line) - 2)

\* the position, among lines, of the k-th labeled line
EntryPosition(lines, k) ==
    LET at == {i \in 1..Len(lines) : IsEntryLine(lines[i])}
    IN  CHOOSE i \in at : Cardinality({j \in at : j <= i}) = k

\* the lines that follow the k-th labeled line, up to the next empty line
EntryBullets(lines, k) ==
    LET p == EntryPosition(lines, k)
        q == MinOf({j \in (p + 1)..Len(lines) : lines[j] = <<>>})
    IN  SubSeq(lines, p + 1, q - 1)

\* the lines of the summary that carry the high-priority count
IsHighCountLine(line) ==
    /\ Len(line) >= Len(SummaryHighLabel)
    /\ SubSeq(line, 1, Len(SummaryHighLabel)) = SummaryHighLabel
HighCountLines(lines) == SelectSeq(lines, IsHighCountLine)

\* word occurs in text, whatever the case of the letters of text
EitherCase(c) ==
    {c} \cup {LowerCase[k] : k \in {k \in 1..Len(UpperCase) : UpperCase[k] = c}}
MentionsNoCase(text, word) ==
    \E i \in 1..(Len(text) - Len(word) + 1) :
        \A j \in 1..Len(word) : text[i + j - 1] \in EitherCase(word[j])

MentionsHigh(text) ==
    MentionsNoCase(text, <<"H", "I", "G", "H">>) \/ MentionsNoCase(text, <<"C", "R", "I", "T", "I", "C", "A", "L">>)

ExpectedIcon(text) ==
    IF MentionsHigh(text) THEN IconHigh
    ELSE IF MentionsNoCase(text, <<"M", "E", "D", "I", "U", "M">>) THEN IconMedium
    ELSE IconLow

\* C7: the summary's high-priority count is the number of results whose text
\* mentions HIGH or CRITICAL in any case; each file's line carries the high icon
\* exactly when its text does, the medium icon when it does not but mentions
\* MEDIUM, the low icon otherwise, whatever the result's severity field holds; so
\* the count equals the number of high-icon lines.
C7_CountAndIcons ==
    pc = "summarized" =>
        LET lines   == split(summary, "\n")
            entries == EntryLines(lines)
            high    == {k \in 1..Len(analyses) : MentionsHigh(analyses[k].analysis)}
        IN  /\ Len(entries) = Len(analyses)
            /\ \A k \in 1..Len(analyses) :
                   /\ EntryFile(entries[k]) = analyses[k].file
                   /\ EntryIcon(entries[k]) = ExpectedIcon(analyses[k].analysis)
            /\ HighCountLines(lines) = <<SummaryHighLabel \o str(Cardinality(high))>>
            /\ Cardinality(high)
                   = Cardinality({k \in 1..Len(entries) : EntryIcon(entries[k]) = IconHigh})

\* two results: one mentions "critical" in lower case and carries severity MEDIUM,
\* the other mentions no severity word and carries severity HIGH
C7_Witness ==
    /\ pc = "summarized"
    /\ Len(analyses) = 2
    /\ analyses[1].analysis = <<"a", " ", "c", "r", "i", "t", "i", "c", "a", "l", " ", "b", "u", "g">>
    /\ analyses[1].severity = <<"M", "E", "D", "I", "U", "M">>
    /\ analyses[2].analysis = <<"l", "o", "w">>
    /\ analyses[2].severity = <<"H", "I", "G", "H">>
    /\ EntryIcon(EntryLines(split(summary, "\n"))[1]) = IconHigh
    /\ EntryIcon(EntryLines(split(summary, "\n"))[2]) = IconLow
    /\ HighCountLines(split(summary, "\n")) = <<SummaryHighLabel \o <<"1">>>>

\* the stripped, non-blank ones among lines, in order
IsNonBlank(line) == line # <<>>
NonBlankStripped(lines) == SelectSeq([i \in 1..Len(lines) |-> strip(lines[i])], IsNonBlank)

AsBullets(lines) == [i \in 1..Len(lines) |-> <<"-", " ">> \o lines[i]]

\* C8 as stated: the bullets under a file's line are the first min(3, k) non-blank
\* lines of the result text, k the number of non-blank lines of the whole text,
\* however many blank lines precede or separate them.
C8_FirstThreeNonBlank ==
    pc = "summarized" =>
        \A k \in 1..Len(analyses) :
            EntryBullets(split(summary, "\n"), k)
                = AsBullets(Take(NonBlankStripped(split(analyses[k].analysis, "\n")), 3))

\* C8 amended: the bullets under a file's line are the non-blank lines, stripped,
\* among the first three lines of the result text; a blank line among the first
\* three takes one of the three places, so fewer than three bullets may appear
\* although the text holds more non-blank lines.
C8_NonBlankOfFirstThree ==
    pc = "summarized" =>
        \A k \in 1..Len(analyses) :
            EntryBullets(split(summary, "\n"), k)
                = AsBullets(NonBlankStripped(Take(split(analyses[k].analysis, "\n"), 3)))

\* a text whose first line is blank and whose next three are not: two bullets
C8_Witness ==
    /\ pc = "summarized"
    /\ Len(analyses) = 1
    /\ analyses[1].analysis = <<"\n", "a", "b", "\n", " ", "c", " ", "\n", "d">>
    /\ EntryBullets(split(summary, "\n"), 1) = <<<<"-", " ", "a", "b">>, <<"-", " ", "c">>>>

(***************************************************************************)
(* Runs of main.                                                           *)
(***************************************************************************)
Finished == pc = "done"
KeyPresent == ~KeyMissing(apiKey)
InitialOutFiles == {o[2] : o \in OutputStates}
Written(document) == outFile = [exists |-> TRUE, content |-> document]

\* C1: whenever change discovery yields nothing, main writes exactly the fixed
\* "no files changed" document and does nothing else: no file read, no HTTP
\* request, no result, and the run ends with exit status 0.
C1_NoFilesDocumentWritten ==
    (Finished /\ KeyPresent /\ changed_files = <<>>) =>
        /\ Written(NoFilesDocument)
        /\ exitStatus = 0
        /\ reads = <<>>
        /\ requests = <<>>
        /\ analyses = <<>>

\* C2: without the credential the process ends with exit status 1 before any
\* other step (no version-control command, no read, no request, the output file
\* untouched); with it the process ends with exit status 0, and no other exit
\* status occurs.
C2_ExitStatus ==
    Finished =>
        IF KeyPresent
        THEN exitStatus = 0
        ELSE /\ exitStatus = 1
             /\ gitCalls = 0
             /\ reads = <<>>
             /\ requests = <<>>
             /\ outFile \in InitialOutFiles

\* the positions of changed_files whose file exists and was read without error
ReadPositions ==
    {i \in 1..Len(changed_files) : FileState(disk, changed_files[i]).kind = "text"}

\* the positions whose file exists and was read to a non-empty text
AnalysedPositions ==
    {i \in ReadPositions : FileState(disk, changed_files[i]).content # <<>>}

LoopOver == pc \in {"report", "done"} /\ changed_files # <<>>

\* C3: at the end of the loop the number of ReviewResults equals the number of
\* HTTP requests equals the number of discovered files that exist and were
\* successfully read; none is produced for a missing file or a failed read.
C3_OnePerReadFile ==
    LoopOver =>
        /\ Len(analyses) = Cardinality(ReadPositions)
        /\ Len(requests) = Cardinality(ReadPositions)

\* a section heading of the report: ## <page icon> <file>
IsHeadingLine(line) ==
    /\ Len(line) >= Len(SectionHeading)
    /\ SubSeq(line, 1, Len(SectionHeading)) = SectionHeading
\* the files the headings among lines name, in order
HeadingFiles(lines) ==
    LET heads == SelectSeq(lines, IsHeadingLine)
    IN  [k \in 1..Len(heads) |-> SubSeq(heads[k], Len(SectionHeading) + 1, Len(heads[k]))]
\* the files the summary's labeled lines among lines name, in order
SummaryFiles(lines) ==
    LET entries == EntryLines(lines)
    IN  [k \in 1..Len(entries) |-> EntryFile(entries[k])]
\* the lines of the output file
OutLines == split(outFile.content, "\n")

\* s is t with some elements left out, the order kept
IsSubsequence(s, t) ==
    \E f \in [1..Len(s) -> 1..Len(t)] :
        /\ \A i \in 1..Len(s) : t[f[i]] = s[i]
        /\ \A i, j \in 1..Len(s) : i < j => f[i] < f[j]

IsAnalysable(file) == read_file_content(disk, file) # <<>>

ReportWritten == Finished /\ KeyPresent /\ changed_files # <<>>

\* what C4 keeps under duplicates: the sections follow discovery order, match the
\* summary's lines, and there is one per ReviewResult
SectionsInDiscoveryOrder ==
    LET lines    == OutLines
        sections == HeadingFiles(lines)
    IN  /\ sections = [k \in 1..Len(analyses) |-> analyses[k].file]
        /\ sections = SelectSeq(changed_files, IsAnalysable)
        /\ IsSubsequence(sections, changed_files)
        /\ SummaryFiles(lines) = sections

\* C4 as stated: in every written report the per-file sections appear in
\* discovery order (an order-preserving subsequence of the discovered list, the
\* order of the summary's lines), one per ReviewResult, and at most one section
\* per analyzed file path.
C4_OneSectionPerPath ==
    ReportWritten =>
        /\ SectionsInDiscoveryOrder
        /\ LET sections == HeadingFiles(OutLines)
           IN  \A i, j \in 1..Len(sections) : i # j => sections[i] # sections[j]

\* C4 amended: in every written report the per-file sections appear in discovery
\* order (an order-preserving subsequence of the discovered list, the order of
\* the summary's lines), exactly one per ReviewResult, that is one per analyzed
\* entry of the discovered list: a path listed n times and analyzed each time
\* has n sections.
C4_OneSectionPerResult ==
    ReportWritten => SectionsInDiscoveryOrder

\* two different files analyzed, in discovery order
C4_Witness ==
    /\ ReportWritten
    /\ changed_files = <<<<"b", ".", "c">>, <<"a", ".", "p", "y">>>>
    /\ HeadingFiles(OutLines) = <<<<"b", ".", "c">>, <<"a", ".", "p", "y">>>>
    /\ SummaryFiles(OutLines) = <<<<"b", ".", "c">>, <<"a", ".", "p", "y">>>>

\* a review call that did not yield a model response
Failed(resp) == resp.kind = "raise" \/ resp.status # 200 \/ ~resp.json.ok

\* the section of the report that holds text under file's heading
SectionOf(file, text) == SectionHeading \o file \o <<"\n", "\n">> \o text \o <<"\n", "\n", "-", "-", "-", "\n", "\n">>

\* C5: a failed review call is never a program error: its result is the literal
\* error string with the status code and body (or the exception text), appended
\* like any response; the files after it are still analyzed, the report is
\* written, the run ends with exit status 0, and the error string stands verbatim
\* in the report under that file's heading.
C5_FailureIsData ==
    /\ Len(analyses) = Len(responses)
    /\ \A k \in 1..Len(responses) :
           Failed(responses[k]) =>
               /\ analyses[k].analysis =
                      (IF responses[k].kind = "http" /\ responses[k].status # 200
                       THEN <<"A", "P", "I", " ", "E", "r", "r", "o", "r", ":", " ">> \o str(responses[k].status) \o <<" ", "-", " ">>
                                \o responses[k].text
                       ELSE <<"E", "r", "r", "o", "r", " ", "c", "a", "l", "l", "i", "n", "g", " ", "G", "e", "m", "i", "n", "i", " ", "A", "P", "I", ":", " ">> \o responses[k].err)
               /\ (responses[k] = HttpResponse(500, <<"o", "o", "p", "s">>, BadJson)
                       => analyses[k].analysis = <<"A", "P", "I", " ", "E", "r", "r", "o", "r", ":", " ", "5", "0", "0", " ", "-", " ", "o", "o", "p", "s">>)
    /\ (pc \in {"loop", "report"} => exitStatus = -1)
    /\ ReportWritten =>
           /\ exitStatus = 0
           /\ Len(analyses) = Cardinality(AnalysedPositions)
           /\ outFile.exists
           /\ \A k \in 1..Len(analyses) :
                  contains(outFile.content, SectionOf(analyses[k].file, analyses[k].analysis))

\* the first file's call came back 500 "oops", the second file was still analyzed
C5_Witness ==
    /\ ReportWritten
    /\ exitStatus = 0
    /\ Len(analyses) = 2
    /\ responses[1] = HttpResponse(500, <<"o", "o", "p", "s">>, BadJson)
    /\ ~Failed(responses[2])
    /\ contains(outFile.content, SectionOf(analyses[1].file, <<"A", "P", "I", " ", "E", "r", "r", "o", "r", ":", " ", "5", "0", "0", " ", "-", " ", "o", "o", "p", "s">>))

\* C6: every run that writes the output document, the report or the "no files
\* changed" document, creates the output directory first if it is absent, so the
\* write succeeds whether or not the directory existed at startup, and prior
\* content is overwritten.
C6_DirectoryCreatedBeforeWrite ==
    (Finished /\ KeyPresent) =>
        /\ dirExists
        /\ Written(IF changed_files = <<>> THEN NoFilesDocument ELSE ReviewOutput(analyses))

\* the fixed text for a response without candidates
PlaceholderText ==
    << "N", "o", " ", "r", "e", "s", "p", "o", "n", "s", "e", " ", "g", "e", "n", "e",
    "r", "a", "t", "e", "d", " ", "f", "r", "o", "m", " ", "G", "e", "m", "i", "n",
    "i", " ", "A", "P", "I" >>

\* C10: the per-file result text is decided by the HTTP outcome alone: status 200
\* with at least one candidate gives exactly the first candidate's text, status
\* 200 with no candidates (or no candidates field) gives the fixed placeholder;
\* the ReviewResult's analysis field is that text and its severity field is
\* always the constant default.
C10_TextFromOutcome ==
    /\ Len(analyses) = Len(responses)
    /\ \A k \in 1..Len(responses) :
           LET r == responses[k]
               answered == r.kind = "http" /\ r.status = 200 /\ r.json.ok
               listed == r.json.hasCandidates /\ Len(r.json.candidates) >= 1
           IN  /\ (answered /\ listed /\ r.json.candidates[1].hasText)
                       => analyses[k].analysis = r.json.candidates[1].text
               /\ (answered /\ ~listed)
                       => analyses[k].analysis = PlaceholderText
               /\ analyses[k].severity = <<"M", "E", "D", "I", "U", "M">>
    /\ \A j, k \in 1..Len(responses) :
           responses[j] = responses[k] => analyses[j].analysis = analyses[k].analysis

\* a response with two candidates gave the first one's text; another response
\* with an empty candidate list gave the placeholder
C10_Witness ==
    /\ Len(responses) = 2
    /\ responses[1] = HttpResponse(200, <<>>, Json(<<Candidate(<<"H", "i", "g", "h", "\n", "r", "i", "s", "k">>), Candidate(<<"X">>)>>))
    /\ analyses[1].analysis = <<"H", "i", "g", "h", "\n", "r", "i", "s", "k">>
    /\ responses[2] = HttpResponse(200, <<>>, Json(<<>>))
    /\ analyses[2].analysis = NoResponseText

====
